---- MODULE Spec2Model ----
(***************************************************************************)
(* A model of termux-api.ts: the one-shot executor executeTermuxCommand,   *)
(* the streaming launcher streamTermuxCommand and the capability functions *)
(* that build their token lists.                                           *)
(*                                                                         *)
(* Text that the code inspects character by character (stdout, stderr, the *)
(* share title) is a sequence of one-character strings.  Tokens and        *)
(* payloads the code only passes on are TLA+ strings.                      *)
(***************************************************************************)
EXTENDS Integers, Sequences, FiniteSets

VARIABLES calls, procs

vars == <<calls, procs>>

----------------------------------------------------------------------------
(* Bounds of the model *)

\* facade calls made in one behaviour
MaxCalls == 2
\* data chunks delivered in one behaviour, over all processes
MaxChunks == 2

----------------------------------------------------------------------------
(* JavaScript values *)

\* the value of an optional parameter that was not supplied
Undefined == "<undefined>"

\* JavaScript truthiness of an optional string: undefined and "" are falsy
Truthy(s) == s # Undefined /\ s # ""

\* the characters String.prototype.trim removes that the model's text contains
WhiteSpace == {" ", "\n"}

RECURSIVE TrimStart(_)
TrimStart(s) ==
  IF s # <<>> /\ Head(s) \in WhiteSpace THEN TrimStart(Tail(s)) ELSE s

RECURSIVE TrimEnd(_)
TrimEnd(s) ==
  IF s # <<>> /\ s[Len(s)] \in WhiteSpace
    THEN TrimEnd(SubSeq(s, 1, Len(s) - 1))
    ELSE s

\* String.prototype.trim
Trim(s) == TrimEnd(TrimStart(s))

\* String.prototype.startsWith
StartsWith(s, prefix) ==
  /\ Len(s) >= Len(prefix)
  /\ SubSeq(s, 1, Len(prefix)) = prefix

\* the sentinel the close handler looks for at the start of stdout
ErrorPrefix == <<"E", "R", "R", "O", "R", ":">>

\* Array.prototype.join: the elements with the separator between them
RECURSIVE Join(_, _)
Join(parts, sep) ==
  IF parts = <<>> THEN <<>>
  ELSE IF Len(parts) = 1 THEN <<parts[1]>>
  ELSE <<parts[1], sep>> \o Join(Tail(parts), sep)

\* `termux-${commandParts.join(" ")}`
Invocation(commandParts) == <<"termux-">> \o Join(commandParts, " ")

----------------------------------------------------------------------------
(* Buffer.prototype.toString: UTF-8 decoding of one chunk.  A byte is an   *)
(* ASCII character, or one half of the two-byte character "e-acute":       *)
(* "hi" (lead byte) and "lo" (continuation byte).  A half without its      *)
(* partner in the same chunk decodes to U+FFFD.                            *)

Replacement == "U+FFFD"
EAcute == "e-acute"

RECURSIVE toString(_)
toString(bytes) ==
  IF bytes = <<>> THEN <<>>
  ELSE IF Head(bytes) = "hi"
    THEN IF Len(bytes) >= 2 /\ bytes[2] = "lo"
           THEN <<EAcute>> \o toString(Tail(Tail(bytes)))
           ELSE <<Replacement>> \o toString(Tail(bytes))
  ELSE IF Head(bytes) = "lo"
    THEN <<Replacement>> \o toString(Tail(bytes))
  ELSE <<Head(bytes)>> \o toString(Tail(bytes))

----------------------------------------------------------------------------
(* JSON.parse, on the texts the model's chunks can form: whitespace,       *)
(* numbers written with the digits 1 and 2, and arrays.  Every other       *)
(* character of the model's alphabet makes the text invalid, as it does    *)
(* for JSON.parse.  A decoded value is a tree [t, n, kids].                *)

Digits == {"1", "2"}
DigitValue(c) == IF c = "1" THEN 1 ELSE 2

JsonNumber(n) == [t |-> "number", n |-> n, kids |-> <<>>]
JsonArray(kids) == [t |-> "array", n |-> 0, kids |-> kids]
NoJson == [t |-> "none", n |-> 0, kids |-> <<>>]

ParseOk(val, next) == [ok |-> TRUE, val |-> val, next |-> next]
ParseFail(at) == [ok |-> FALSE, val |-> NoJson, next |-> at]

RECURSIVE SkipWs(_, _)
SkipWs(s, i) ==
  IF i <= Len(s) /\ s[i] \in WhiteSpace THEN SkipWs(s, i + 1) ELSE i

RECURSIVE ParseDigits(_, _, _)
ParseDigits(s, i, acc) ==
  IF i <= Len(s) /\ s[i] \in Digits
    THEN ParseDigits(s, i + 1, 10 * acc + DigitValue(s[i]))
    ELSE ParseOk(JsonNumber(acc), i)

RECURSIVE ParseValue(_, _)
RECURSIVE ParseElements(_, _, _)

ParseValue(s, i) ==
  LET j == SkipWs(s, i) IN
  IF j > Len(s) THEN ParseFail(j)
  ELSE IF s[j] \in Digits THEN ParseDigits(s, j, 0)
  ELSE IF s[j] = "["
    THEN LET k == SkipWs(s, j + 1) IN
         IF k <= Len(s) /\ s[k] = "]"
           THEN ParseOk(JsonArray(<<>>), k + 1)
           ELSE ParseElements(s, j + 1, <<>>)
  ELSE ParseFail(j)

ParseElements(s, i, acc) ==
  LET r == ParseValue(s, i) IN
  IF ~r.ok THEN r
  ELSE LET k == SkipWs(s, r.next) IN
       IF k > Len(s) THEN ParseFail(k)
       ELSE IF s[k] = "," THEN ParseElements(s, k + 1, Append(acc, r.val))
       ELSE IF s[k] = "]" THEN ParseOk(JsonArray(Append(acc, r.val)), k + 1)
       ELSE ParseFail(k)

\* JSON.parse(text): ok with the value, or not ok (it throws a SyntaxError
\* whose message names the position `next`)
JSONparse(text) ==
  LET r == ParseValue(text, 1) IN
  IF ~r.ok THEN r
  ELSE LET k == SkipWs(text, r.next) IN
       IF k > Len(text) THEN r ELSE ParseFail(k)

----------------------------------------------------------------------------
(* Outcomes of a call.  An Error is a record of the template its message   *)
(* was built from (kind) and the pieces the template embeds.               *)

\* the argument of the close event: the exit code, or null after a signal
ExitCode(n) == [isNull |-> FALSE, n |-> n]
NullCode == [isNull |-> TRUE, n |-> 0]

\* code !== 0
NotZero(code) == code.isNull \/ code.n # 0

NoOutcome ==
  [kind |-> "none", isJson |-> FALSE, text |-> <<>>, json |-> NoJson,
   stderr |-> <<>>, stdout |-> <<>>, command |-> <<>>, code |-> ExitCode(0),
   at |-> 0, detail |-> ""]

Pending == [NoOutcome EXCEPT !.kind = "pending"]

\* resolve(stdoutData.trim())
ResolveText(text) == [NoOutcome EXCEPT !.kind = "success", !.text = text]

\* resolve(JSON.parse(stdoutData.trim()))
ResolveJson(value) ==
  [NoOutcome EXCEPT !.kind = "success", !.isJson = TRUE, !.json = value]

\* `Termux API Error (stderr): ...\nStdout: ...\nCommand: termux-...`
CommandError(stderrText, stdoutText, commandParts) ==
  [NoOutcome EXCEPT !.kind = "CommandError", !.stderr = stderrText,
                    !.stdout = stdoutText,
                    !.command = Invocation(commandParts)]

\* `Termux API command termux-... exited with code ${code}.`
NonZeroExit(commandParts, code) ==
  [NoOutcome EXCEPT !.kind = "NonZeroExit", !.code = code,
                    !.command = Invocation(commandParts)]

\* new Error(stdoutData.trim())
OutputError(stdoutText) ==
  [NoOutcome EXCEPT !.kind = "OutputError", !.text = stdoutText]

\* `Failed to parse JSON output: ...\nError: ...\nStderr: ...`
DecodeError(stdoutText, at, stderrText) ==
  [NoOutcome EXCEPT !.kind = "DecodeError", !.text = stdoutText,
                    !.at = at, !.detail = "SyntaxError",
                    !.stderr = stderrText]

\* `Failed to start Termux API command: termux-...\nError: ${err.message}`
LaunchError(commandParts, message) ==
  [NoOutcome EXCEPT !.kind = "LaunchError", !.detail = message,
                    !.command = Invocation(commandParts)]

\* new Error(<message>) of a capability function's own check
ValidationError(message) ==
  [NoOutcome EXCEPT !.kind = "ValidationError", !.detail = message]

\* a promise that the last call of resolve or reject settles
SettleLastWins(current, outcome) == outcome

\* resolve and reject of a promise: the first call settles it, later calls
\* have no effect
Settle(current, outcome) ==
  IF current.kind = "pending" THEN outcome ELSE current

----------------------------------------------------------------------------
(* executeTermuxCommand *)

\* DecodeStep with a catch clause that resolves with the raw text
DecodeStepRawOnFailure(stdoutData, stderrData, isJsonOutput) ==
  IF isJsonOutput /\ Trim(stdoutData) # <<>>
    THEN LET r == JSONparse(Trim(stdoutData)) IN
         IF r.ok THEN ResolveJson(r.val)
         ELSE ResolveText(Trim(stdoutData))
    ELSE ResolveText(Trim(stdoutData))

\* DecodeStep that decodes whenever structured output is requested
DecodeStepAlwaysParse(stdoutData, stderrData, isJsonOutput) ==
  IF isJsonOutput
    THEN LET r == JSONparse(Trim(stdoutData)) IN
         IF r.ok THEN ResolveJson(r.val)
         ELSE DecodeError(Trim(stdoutData), r.next, Trim(stderrData))
    ELSE ResolveText(Trim(stdoutData))

\* DecodeStep without the catch clause: the exception of JSON.parse leaves
\* the handler and nothing settles the promise
DecodeStepNoCatch(stdoutData, stderrData, isJsonOutput) ==
  IF isJsonOutput /\ Trim(stdoutData) # <<>>
    THEN LET r == JSONparse(Trim(stdoutData)) IN
         IF r.ok THEN ResolveJson(r.val) ELSE Pending
    ELSE ResolveText(Trim(stdoutData))

\* the try block of the close handler: the value resolved, or the
\* rejection of the catch clause when JSON.parse throws
DecodeStep(stdoutData, stderrData, isJsonOutput) ==
  IF isJsonOutput /\ Trim(stdoutData) # <<>>
    THEN LET r == JSONparse(Trim(stdoutData)) IN
         IF r.ok THEN ResolveJson(r.val)
         ELSE DecodeError(Trim(stdoutData), r.next, Trim(stderrData))
    ELSE ResolveText(Trim(stdoutData))

\* the close handler with the stderr test made after the exit code test
CloseOutcomeExitCodeFirst(stdoutData, stderrData, code, isJsonOutput, commandParts) ==
  IF NotZero(code) /\ Trim(stdoutData) = <<>>
    THEN NonZeroExit(commandParts, code)
  ELSE IF stderrData # <<>>
    THEN CommandError(Trim(stderrData), Trim(stdoutData), commandParts)
  ELSE IF StartsWith(stdoutData, ErrorPrefix)
    THEN OutputError(Trim(stdoutData))
  ELSE DecodeStep(stdoutData, stderrData, isJsonOutput)

\* the close handler without the exit code test
CloseOutcomeNoExitCode(stdoutData, stderrData, code, isJsonOutput, commandParts) ==
  IF stderrData # <<>>
    THEN CommandError(Trim(stderrData), Trim(stdoutData), commandParts)
  ELSE IF StartsWith(stdoutData, ErrorPrefix)
    THEN OutputError(Trim(stdoutData))
  ELSE DecodeStep(stdoutData, stderrData, isJsonOutput)

\* the close handler failing on every non-zero exit code
CloseOutcomeAnyNonZero(stdoutData, stderrData, code, isJsonOutput, commandParts) ==
  IF stderrData # <<>>
    THEN CommandError(Trim(stderrData), Trim(stdoutData), commandParts)
  ELSE IF NotZero(code)
    THEN NonZeroExit(commandParts, code)
  ELSE IF StartsWith(stdoutData, ErrorPrefix)
    THEN OutputError(Trim(stdoutData))
  ELSE DecodeStep(stdoutData, stderrData, isJsonOutput)

\* the close handler testing the exit code for truthiness: null passes for 0
CloseOutcomeTruthyCode(stdoutData, stderrData, code, isJsonOutput, commandParts) ==
  IF stderrData # <<>>
    THEN CommandError(Trim(stderrData), Trim(stdoutData), commandParts)
  ELSE IF ~code.isNull /\ code.n # 0 /\ Trim(stdoutData) = <<>>
    THEN NonZeroExit(commandParts, code)
  ELSE IF StartsWith(stdoutData, ErrorPrefix)
    THEN OutputError(Trim(stdoutData))
  ELSE DecodeStep(stdoutData, stderrData, isJsonOutput)

\* the close handler testing the trimmed stderr text first
CloseOutcomeStderrTrimmed(stdoutData, stderrData, code, isJsonOutput, commandParts) ==
  IF Trim(stderrData) # <<>>
    THEN CommandError(Trim(stderrData), Trim(stdoutData), commandParts)
  ELSE IF NotZero(code) /\ Trim(stdoutData) = <<>>
    THEN NonZeroExit(commandParts, code)
  ELSE IF StartsWith(stdoutData, ErrorPrefix)
    THEN OutputError(Trim(stdoutData))
  ELSE DecodeStep(stdoutData, stderrData, isJsonOutput)

\* the close handler with the receiver and the argument of startsWith swapped
CloseOutcomePrefixSwapped(stdoutData, stderrData, code, isJsonOutput, commandParts) ==
  IF stderrData # <<>>
    THEN CommandError(Trim(stderrData), Trim(stdoutData), commandParts)
  ELSE IF NotZero(code) /\ Trim(stdoutData) = <<>>
    THEN NonZeroExit(commandParts, code)
  ELSE IF StartsWith(ErrorPrefix, stdoutData)
    THEN OutputError(Trim(stdoutData))
  ELSE DecodeStep(stdoutData, stderrData, isJsonOutput)

\* the close handler: what it passes to resolve or reject
CloseOutcome(stdoutData, stderrData, code, isJsonOutput, commandParts) ==
  IF stderrData # <<>>
    THEN CommandError(Trim(stderrData), Trim(stdoutData), commandParts)
  ELSE IF NotZero(code) /\ Trim(stdoutData) = <<>>
    THEN NonZeroExit(commandParts, code)
  ELSE IF StartsWith(stdoutData, ErrorPrefix)
    THEN OutputError(Trim(stdoutData))
  ELSE DecodeStep(stdoutData, stderrData, isJsonOutput)

\* the error handler: what it passes to reject
ErrorOutcome(commandParts, message) == LaunchError(commandParts, message)

\* spawn called with the whole token list as the arguments
SpawnArgsUnsliced(commandParts) == commandParts

\* spawn(`termux-${commandName}`, args)
SpawnFile(commandParts) == <<"termux-", commandParts[1]>>

\* commandParts.slice(1)
SpawnArgs(commandParts) == Tail(commandParts)

\* stdin left open when there is no payload
StdinOpsNoEnd(inputText) ==
  IF Truthy(inputText)
    THEN <<[op |-> "write", data |-> inputText], [op |-> "end", data |-> ""]>>
    ELSE <<>>

\* the calls made on process.stdin, in order
StdinOps(inputText) ==
  IF Truthy(inputText)
    THEN <<[op |-> "write", data |-> inputText], [op |-> "end", data |-> ""]>>
    ELSE <<[op |-> "end", data |-> ""]>>

\* the executor without its error listener
ExecutorListenersNoError == {"stdout.data", "stderr.data", "close"}

\* the listeners the executor registers on the process and its streams
ExecutorListeners == {"stdout.data", "stderr.data", "close", "error"}

\* the process as the executor leaves it when the promise is returned;
\* started is whether the operating system could start the executable
ExecutedProcess(commandParts, inputText, isJsonOutput, started, call) ==
  [file |-> SpawnFile(commandParts), args |-> SpawnArgs(commandParts),
   commandParts |-> commandParts, inputText |-> inputText,
   isJsonOutput |-> isJsonOutput,
   stdin |-> StdinOps(inputText), listeners |-> ExecutorListeners,
   started |-> started, errorEmitted |-> FALSE, closed |-> FALSE,
   closeCode |-> ExitCode(0),
   outChunks |-> <<>>, errChunks |-> <<>>,
   stdoutData |-> <<>>, stderrData |-> <<>>, call |-> call]

----------------------------------------------------------------------------
(* streamTermuxCommand *)

\* a launcher that buffers stdout as the executor does
StreamListenersBuffering == {"stdout.data"}

\* the listeners the launcher registers on the process and its streams
StreamListeners == {}

\* the calls the launcher makes on process.stdin
StreamStdinOps == <<>>

\* the process as the launcher returns it
StreamedProcess(commandParts, started, call) ==
  [file |-> SpawnFile(commandParts), args |-> SpawnArgs(commandParts),
   commandParts |-> commandParts, inputText |-> Undefined,
   isJsonOutput |-> FALSE,
   stdin |-> StreamStdinOps, listeners |-> StreamListeners,
   started |-> started, errorEmitted |-> FALSE, closed |-> FALSE,
   closeCode |-> ExitCode(0),
   outChunks |-> <<>>, errChunks |-> <<>>,
   stdoutData |-> <<>>, stderrData |-> <<>>, call |-> call]

----------------------------------------------------------------------------
(* What a capability function does with its parameters: it calls the       *)
(* executor or the launcher, returns a rejected promise, or throws.        *)

Execute(commandParts, inputText, isJsonOutput) ==
  [how |-> "execute", commandParts |-> commandParts, inputText |-> inputText,
   isJsonOutput |-> isJsonOutput, message |-> ""]

RejectWith(message) ==
  [how |-> "reject", commandParts |-> <<>>, inputText |-> Undefined,
   isJsonOutput |-> FALSE, message |-> message]

ThrowError(message) ==
  [how |-> "throw", commandParts |-> <<>>, inputText |-> Undefined,
   isJsonOutput |-> FALSE, message |-> message]

Stream(commandParts) ==
  [how |-> "stream", commandParts |-> commandParts, inputText |-> Undefined,
   isJsonOutput |-> FALSE, message |-> ""]

\* args.push(flag, value) when the optional string is truthy
PushIf(value, tokens) == IF Truthy(value) THEN tokens ELSE <<>>

\* title.replaceAll(/\s+/g, "-"): every run of whitespace becomes one "-"
RECURSIVE ReplaceWhiteSpaceRuns(_)
ReplaceWhiteSpaceRuns(s) ==
  IF s = <<>> THEN <<>>
  ELSE IF Head(s) \in WhiteSpace
    THEN <<"-">> \o ReplaceWhiteSpaceRuns(TrimStart(s))
    ELSE <<Head(s)>> \o ReplaceWhiteSpaceRuns(Tail(s))

\* share without its final else branch
shareUnchecked(params) ==
  LET args ==
        (IF params.title # <<>>
           THEN <<"-t", ReplaceWhiteSpaceRuns(params.title)>> ELSE <<>>)
        \o PushIf(params.contentType, <<"-c", params.contentType>>)
        \o (IF params.useDefaultReceiver THEN <<"-d">> ELSE <<>>)
        \o PushIf(params.action, <<"-a", params.action>>)
  IN IF Truthy(params.filePath)
       THEN Execute(<<"share">> \o args \o <<params.filePath>>, Undefined, FALSE)
       ELSE Execute(<<"share">> \o args, params.text, FALSE)

\* share giving text precedence over filePath
shareTextFirst(params) ==
  LET args ==
        (IF params.title # <<>>
           THEN <<"-t", ReplaceWhiteSpaceRuns(params.title)>> ELSE <<>>)
        \o PushIf(params.contentType, <<"-c", params.contentType>>)
        \o (IF params.useDefaultReceiver THEN <<"-d">> ELSE <<>>)
        \o PushIf(params.action, <<"-a", params.action>>)
  IN IF Truthy(params.text)
       THEN Execute(<<"share">> \o args, params.text, FALSE)
     ELSE IF Truthy(params.filePath)
       THEN Execute(<<"share">> \o args \o <<params.filePath>>, Undefined, FALSE)
     ELSE RejectWith("Either text or filePath must be provided for sharing.")

\* share(params); params.title is text, empty when absent
share(params) ==
  LET args ==
        (IF params.title # <<>>
           THEN <<"-t", ReplaceWhiteSpaceRuns(params.title)>> ELSE <<>>)
        \o PushIf(params.contentType, <<"-c", params.contentType>>)
        \o (IF params.useDefaultReceiver THEN <<"-d">> ELSE <<>>)
        \o PushIf(params.action, <<"-a", params.action>>)
  IN IF Truthy(params.filePath)
       THEN Execute(<<"share">> \o args \o <<params.filePath>>, Undefined, FALSE)
     ELSE IF Truthy(params.text)
       THEN Execute(<<"share">> \o args, params.text, FALSE)
     ELSE RejectWith("Either text or filePath must be provided for sharing.")

\* mediaPlayerControl passing the filePath with every action
mediaPlayerControlAnyAction(params) ==
  LET command == <<"media-player", params.action>> IN
  IF Truthy(params.filePath)
    THEN Execute(command \o <<params.filePath>>, Undefined, FALSE)
  ELSE IF params.action = "play"
    THEN RejectWith("filePath is required for 'play' action.")
  ELSE Execute(command, Undefined, FALSE)

\* mediaPlayerControl(params)
mediaPlayerControl(params) ==
  LET command == <<"media-player", params.action>> IN
  IF params.action = "play" /\ Truthy(params.filePath)
    THEN Execute(command \o <<params.filePath>>, Undefined, FALSE)
  ELSE IF params.action = "play" /\ ~Truthy(params.filePath)
    THEN RejectWith("filePath is required for 'play' action.")
  ELSE Execute(command, Undefined, FALSE)

\* setWallpaper(params)
setWallpaper(params) ==
  LET lock == IF params.setForLockscreen THEN <<"-l">> ELSE <<>> IN
  IF Truthy(params.filePath)
    THEN Execute(<<"wallpaper", "-f", params.filePath>> \o lock, Undefined, FALSE)
  ELSE IF Truthy(params.url)
    THEN Execute(<<"wallpaper", "-u", params.url>> \o lock, Undefined, FALSE)
  ELSE RejectWith("Either filePath or url must be provided for wallpaper.")

\* params?.field : undefined when params itself was not passed
Opt(params, value) == IF params.given THEN value ELSE Undefined

\* getLocation without the default request type
getLocationNoDefault(params) ==
  LET provider == Opt(params, params.provider)
      requestType == Opt(params, params.requestType)
      args ==
        PushIf(provider, <<"-p", provider>>)
        \o (IF Truthy(requestType) /\ requestType # "updates"
              THEN <<"-r", requestType>> ELSE <<>>)
  IN IF requestType = "updates"
       THEN ThrowError("For location updates, please use the streamLocationUpdates() function.")
       ELSE Execute(<<"location">> \o args, Undefined, TRUE)

\* getLocation(params)
getLocation(params) ==
  LET provider == Opt(params, params.provider)
      requestType == Opt(params, params.requestType)
      args ==
        PushIf(provider, <<"-p", provider>>)
        \o (IF Truthy(requestType) /\ requestType # "updates"
              THEN <<"-r", requestType>>
            ELSE IF ~Truthy(requestType) THEN <<"-r", "once">>
            ELSE <<>>)
  IN IF requestType = "updates"
       THEN ThrowError("For location updates, please use the streamLocationUpdates() function.")
       ELSE Execute(<<"location">> \o args, Undefined, TRUE)

\* showToast passing the message as the last argument token
showToastMessageAsToken(params) ==
  LET args ==
        (IF params.shortDuration THEN <<"-s">> ELSE <<>>)
        \o PushIf(params.backgroundColor, <<"-b", params.backgroundColor>>)
        \o PushIf(params.textColor, <<"-c", params.textColor>>)
        \o PushIf(params.gravity, <<"-g", params.gravity>>)
  IN Execute(<<"toast">> \o args \o <<params.message>>, Undefined, FALSE)

\* showToast(params)
showToast(params) ==
  LET args ==
        (IF params.shortDuration THEN <<"-s">> ELSE <<>>)
        \o PushIf(params.backgroundColor, <<"-b", params.backgroundColor>>)
        \o PushIf(params.textColor, <<"-c", params.textColor>>)
        \o PushIf(params.gravity, <<"-g", params.gravity>>)
  IN Execute(<<"toast">> \o args, params.message, FALSE)

\* an optional number: supplied with a value, or undefined
Number(n) == [defined |-> TRUE, n |-> n]
NoNumber == [defined |-> FALSE, n |-> 0]

\* Number.prototype.toString of a one-digit number
NumberToString(n) ==
  <<"0", "1", "2", "3", "4", "5", "6", "7", "8", "9">>[n + 1]

\* streamLocationUpdates(provider): the parameter defaults to "gps"
streamLocationUpdates(provider) ==
  LET p == IF provider = Undefined THEN "gps" ELSE provider IN
  Stream(<<"location", "-p", p, "-r", "updates">>)

\* streamSensorData(params)
streamSensorData(params) ==
  LET args ==
        <<"-s", params.sensors>>
        \o (IF params.delay.defined
              THEN <<"-d", NumberToString(params.delay.n)>> ELSE <<>>)
        \o (IF params.limit.defined
              THEN <<"-n", NumberToString(params.limit.n)>> ELSE <<>>)
  IN Stream(<<"sensor">> \o args)

\* speechToText()
speechToText == Stream(<<"speech-to-text">>)

\* an optional list: supplied, or undefined
List(items) == [given |-> TRUE, items |-> items]
NoList == [given |-> FALSE, items |-> <<>>]

\* Array.prototype.join(",") of the vibrate patterns the model supplies
JoinNumbers(items) ==
  CASE items = <<>> -> ""
    [] items = <<5>> -> "5"
    [] items = <<1, 2>> -> "1,2"

\* `--button${i + 1}-text` and `--button${i + 1}-action`, n being i + 1
ButtonTextFlag(n) ==
  <<"--button1-text", "--button2-text", "--button3-text",
    "--button4-text">>[n]
ButtonActionFlag(n) ==
  <<"--button1-action", "--button2-action", "--button3-action",
    "--button4-action">>[n]

\* buttons.forEach without the test on the index
RECURSIVE PushButtonsUnlimited(_, _)
PushButtonsUnlimited(buttons, n) ==
  IF n > Len(buttons) THEN <<>>
  ELSE <<ButtonTextFlag(n), buttons[n].text,
         ButtonActionFlag(n), buttons[n].action>>
       \o PushButtonsUnlimited(buttons, n + 1)

\* params.buttons?.forEach((btn, i) => { if (i < 3) ... }), from the
\* button at position n (i = n - 1) on
RECURSIVE PushButtons(_, _)
PushButtons(buttons, n) ==
  IF n > Len(buttons) THEN <<>>
  ELSE (IF n - 1 < 3
          THEN <<ButtonTextFlag(n), buttons[n].text,
                 ButtonActionFlag(n), buttons[n].action>>
          ELSE <<>>)
       \o PushButtons(buttons, n + 1)

\* the tokens of showNotification that come before the buttons
NotificationFlags(params) ==
  PushIf(params.title, <<"--title", params.title>>)
  \o PushIf(params.id, <<"--id", params.id>>)
  \o PushIf(params.priority, <<"--priority", params.priority>>)
  \o PushIf(params.ledColor, <<"--led-color", params.ledColor>>)
  \o (IF params.ledOnMs.defined
        THEN <<"--led-on", NumberToString(params.ledOnMs.n)>> ELSE <<>>)
  \o (IF params.ledOffMs.defined
        THEN <<"--led-off", NumberToString(params.ledOffMs.n)>> ELSE <<>>)
  \o (IF params.vibratePattern.given
        THEN <<"--vibrate", JoinNumbers(params.vibratePattern.items)>>
        ELSE <<>>)
  \o (IF params.sound THEN <<"--sound">> ELSE <<>>)
  \o (IF params.ongoing THEN <<"--ongoing">> ELSE <<>>)
  \o (IF params.alertOnce THEN <<"--alert-once">> ELSE <<>>)
  \o PushIf(params.action, <<"--action", params.action>>)
  \o PushIf(params.groupKey, <<"--group", params.groupKey>>)
  \o PushIf(params.channelId, <<"--channel", params.channelId>>)
  \o PushIf(params.iconName, <<"--icon", params.iconName>>)
  \o PushIf(params.imagePath, <<"--image-path", params.imagePath>>)
  \o (IF params.type = "media"
        THEN <<"--type", "media">>
             \o PushIf(params.mediaPreviousAction,
                       <<"--media-previous", params.mediaPreviousAction>>)
             \o PushIf(params.mediaPauseAction,
                       <<"--media-pause", params.mediaPauseAction>>)
             \o PushIf(params.mediaPlayAction,
                       <<"--media-play", params.mediaPlayAction>>)
             \o PushIf(params.mediaNextAction,
                       <<"--media-next", params.mediaNextAction>>)
        ELSE <<>>)

\* showNotification(params)
showNotification(params) ==
  LET args ==
        NotificationFlags(params)
        \o (IF params.buttons.given
              THEN PushButtons(params.buttons.items, 1) ELSE <<>>)
        \o PushIf(params.onDeleteAction,
                  <<"--on-delete", params.onDeleteAction>>)
  IN Execute(<<"notification">> \o args, params.content, FALSE)

\* vibrate(params); the test on durationMs and its push are written twice
vibrate(params) ==
  LET durationMs == IF params.given THEN params.durationMs ELSE NoNumber
      args ==
        (IF durationMs.defined
           THEN <<"-d", NumberToString(durationMs.n)>> ELSE <<>>)
        \o (IF durationMs.defined
              THEN <<"-d", NumberToString(durationMs.n)>> ELSE <<>>)
        \o (IF params.given /\ params.force THEN <<"-f">> ELSE <<>>)
  IN Execute(<<"vibrate">> \o args, Undefined, FALSE)

\* String.prototype.includes on the input types of a text dialog; the test
\* is case-sensitive, so "numberPassword" does not include "password"
Includes(s, sub) ==
  \/ sub = "number" /\ s \in {"number", "numberPassword"}
  \/ sub = "password" /\ s = "password"
  \/ sub = "text" /\ s = "text"

\* Array.prototype.join(",") of the option values the model supplies
JoinValues(items) ==
  CASE items = <<>> -> ""
    [] items = <<"a">> -> "a"
    [] items = <<"a", "b">> -> "a,b"

\* the range pair of a counter dialog, pushed when min, max and start are
\* truthy: 0 counts as missing
CounterRangeTruthy(params) ==
  IF /\ params.min.defined /\ params.min.n # 0
     /\ params.max.defined /\ params.max.n # 0
     /\ params.start.defined /\ params.start.n # 0
    THEN <<"-r", <<NumberToString(params.min.n), ",",
                   NumberToString(params.max.n), ",",
                   NumberToString(params.start.n)>> >>
    ELSE <<>>

\* case "counter" of showDialog; the token `${min},${max},${start}` is the
\* text of its pieces
CounterRange(params) ==
  IF params.min.defined /\ params.max.defined /\ params.start.defined
    THEN <<"-r", <<NumberToString(params.min.n), ",",
                   NumberToString(params.max.n), ",",
                   NumberToString(params.start.n)>> >>
    ELSE <<>>

\* showDialog(type, params)
showDialog(type, params) ==
  LET args ==
        <<type>>
        \o PushIf(params.title, <<"-t", params.title>>)
        \o PushIf(params.hint, <<"-i", params.hint>>)
        \o (CASE type = "text" ->
                   (IF params.multipleLines THEN <<"-m">> ELSE <<>>)
                   \o (IF Truthy(params.inputType)
                         THEN (IF Includes(params.inputType, "number")
                                 THEN <<"-n">> ELSE <<>>)
                              \o (IF Includes(params.inputType, "password")
                                    THEN <<"-p">> ELSE <<>>)
                         ELSE <<>>)
              [] type = "counter" -> CounterRange(params)
              [] type = "date" -> PushIf(params.format, <<"-d", params.format>>)
              [] type \in {"checkbox", "radio", "spinner", "sheet"} ->
                   (IF params.values.given /\ Len(params.values.items) > 0
                      THEN <<"-v", JoinValues(params.values.items)>>
                      ELSE <<>>)
              [] OTHER -> <<>>)
      inputText == Undefined
  IN Execute(<<"dialog">> \o args, inputText, TRUE)

\* `-${action.charAt(0)}` for the actions of the microphone recorder
ActionFlag(action) ==
  CASE action = "info" -> "-i"
    [] action = "record" -> "-r"
    [] action = "quit" -> "-q"

\* micRecord passing the recording parameters with every action
micRecordAnyAction(action, params) ==
  LET args ==
        <<ActionFlag(action)>>
        \o (IF params.given
              THEN PushIf(params.filePath, <<"-f", params.filePath>>)
                   \o (IF params.limitSeconds.defined
                         THEN <<"-l", NumberToString(params.limitSeconds.n)>>
                         ELSE <<>>)
                   \o PushIf(params.encoder, <<"-e", params.encoder>>)
              ELSE <<>>)
  IN Execute(<<"microphone-record">> \o args, Undefined, action = "info")

\* micRecord(action, params)
micRecord(action, params) ==
  LET args ==
        <<ActionFlag(action)>>
        \o (IF action = "record" /\ params.given
              THEN PushIf(params.filePath, <<"-f", params.filePath>>)
                   \o (IF params.limitSeconds.defined
                         THEN <<"-l", NumberToString(params.limitSeconds.n)>>
                         ELSE <<>>)
                   \o PushIf(params.encoder, <<"-e", params.encoder>>)
              ELSE <<>>)
      isJson == action = "info"
  IN Execute(<<"microphone-record">> \o args, Undefined, isJson)

\* String.prototype.split("\n"): the pieces between the newlines; a text
\* with no newline, the empty text included, is one piece
RECURSIVE Split(_)
Split(s) ==
  IF \A i \in DOMAIN s : s[i] # "\n"
    THEN <<s>>
    ELSE LET i == CHOOSE k \in DOMAIN s :
                    s[k] = "\n" /\ \A j \in 1..(k - 1) : s[j] # "\n"
         IN <<SubSeq(s, 1, i - 1)>> \o Split(SubSeq(s, i + 1, Len(s)))

\* (s) => s.length > 0
NotEmpty(s) == Len(s) > 0

\* the value an async function's promise is resolved with when it returns a
\* list of strings
ResolveList(items) == [kind |-> "success", items |-> items]

\* the executor call of listUsbDevices
listUsbDevices == Execute(<<"usb", "-l">>, Undefined, FALSE)

\* the rest of listUsbDevices returning the lines without trimming and
\* filtering them
listUsbDevicesAwaitedRawLines(awaited) ==
  IF awaited.kind = "success" THEN ResolveList(Split(awaited.text))
  ELSE awaited

\* the rest of listUsbDevices after the await, as the state of the promise
\* listUsbDevices returned: pending while the executor's promise is, rejected
\* with the executor's error, or resolved with the lines of the output
listUsbDevicesAwaited(awaited) ==
  IF awaited.kind = "success"
    THEN LET output == awaited.text
             parts == Split(output)
             trimmed == [k \in DOMAIN parts |-> Trim(parts[k])]
         IN ResolveList(SelectSeq(trimmed, NotEmpty))
  ELSE awaited

----------------------------------------------------------------------------
(* Inputs *)

ShareParams(title, contentType, useDefaultReceiver, action, filePath, text) ==
  [title |-> title, contentType |-> contentType,
   useDefaultReceiver |-> useDefaultReceiver, action |-> action,
   filePath |-> filePath, text |-> text]

ShareParamSet ==
  { ShareParams(<<>>, Undefined, FALSE, Undefined, Undefined, Undefined),
    ShareParams(<<>>, Undefined, FALSE, Undefined, Undefined, ""),
    ShareParams(<<>>, Undefined, FALSE, Undefined, Undefined, "hi"),
    ShareParams(<<>>, Undefined, FALSE, Undefined, "/f", Undefined),
    ShareParams(<<"a", " ", "\n", "b">>, "text/plain", TRUE, "send", "/f", "hi"),
    ShareParams(<<"a", " ", "b", " ">>, Undefined, FALSE, Undefined, Undefined, "hi") }

MediaPlayerParamSet ==
  [action : {"play", "pause"}, filePath : {Undefined, "", "/m"}]

WallpaperParamSet ==
  [filePath : {Undefined, "/w"}, url : {Undefined, "http://u"},
   setForLockscreen : BOOLEAN]

GetLocationParamSet ==
  [given : {TRUE}, provider : {Undefined, "network"},
   requestType : {Undefined, "last", "once", "updates"}]
  \cup [given : {FALSE}, provider : {Undefined}, requestType : {Undefined}]

ToastParamSet ==
  { [message |-> "hi", shortDuration |-> FALSE, backgroundColor |-> Undefined,
     textColor |-> Undefined, gravity |-> Undefined],
    [message |-> "hi", shortDuration |-> TRUE, backgroundColor |-> "red",
     textColor |-> "white", gravity |-> "top"],
    [message |-> "", shortDuration |-> FALSE, backgroundColor |-> Undefined,
     textColor |-> Undefined, gravity |-> "top"] }

StreamLocationParamSet == {Undefined, "network"}

StreamSensorsParamSet ==
  [sensors : {"all"}, delay : {NoNumber, Number(0)},
   limit : {NoNumber, Number(5)}]

\* a notification with its content and nothing else
PlainNotification ==
  [content |-> "hi", title |-> Undefined, id |-> Undefined,
   priority |-> Undefined, ledColor |-> Undefined, ledOnMs |-> NoNumber,
   ledOffMs |-> NoNumber, vibratePattern |-> NoList, sound |-> FALSE,
   ongoing |-> FALSE, alertOnce |-> FALSE, action |-> Undefined,
   groupKey |-> Undefined, channelId |-> Undefined, iconName |-> Undefined,
   imagePath |-> Undefined, type |-> Undefined,
   mediaPreviousAction |-> Undefined, mediaPauseAction |-> Undefined,
   mediaPlayAction |-> Undefined, mediaNextAction |-> Undefined,
   buttons |-> NoList, onDeleteAction |-> Undefined]

\* a notification with every optional parameter supplied
FullNotification ==
  [content |-> "hi", title |-> "T", id |-> "7", priority |-> "high",
   ledColor |-> "ff0000", ledOnMs |-> Number(0), ledOffMs |-> Number(9),
   vibratePattern |-> List(<<1, 2>>), sound |-> TRUE, ongoing |-> TRUE,
   alertOnce |-> TRUE, action |-> "act", groupKey |-> "g",
   channelId |-> "ch", iconName |-> "ic", imagePath |-> "/i",
   type |-> "media", mediaPreviousAction |-> "prev",
   mediaPauseAction |-> "pause", mediaPlayAction |-> "play",
   mediaNextAction |-> "next", buttons |-> NoList,
   onDeleteAction |-> "del"]

NotificationButtons ==
  << [text |-> "t1", action |-> "a1"], [text |-> "t2", action |-> "a2"],
     [text |-> "t3", action |-> "a3"], [text |-> "t4", action |-> "a4"] >>

NotificationParamSet ==
  { PlainNotification,
    [PlainNotification EXCEPT !.content = "", !.vibratePattern = List(<<>>),
                              !.buttons = List(<<>>)],
    [PlainNotification EXCEPT
       !.buttons = List(SubSeq(NotificationButtons, 1, 1)),
       !.mediaPlayAction = "play"],
    [PlainNotification EXCEPT
       !.buttons = List(SubSeq(NotificationButtons, 2, 4)),
       !.vibratePattern = List(<<5>>), !.onDeleteAction = "del"],
    [PlainNotification EXCEPT !.buttons = List(NotificationButtons),
                              !.title = "T"],
    [FullNotification EXCEPT !.buttons = List(NotificationButtons)],
    FullNotification }

VibrateParamSet ==
  [given : {TRUE}, durationMs : {NoNumber, Number(0), Number(5)},
   force : BOOLEAN]
  \cup [given : {FALSE}, durationMs : {NoNumber}, force : {FALSE}]

\* the parameters of a dialog with none of them supplied
PlainDialog ==
  [title |-> Undefined, hint |-> Undefined, multipleLines |-> FALSE,
   inputType |-> Undefined, min |-> NoNumber, max |-> NoNumber,
   start |-> NoNumber, format |-> Undefined, values |-> NoList]

DialogCall(type, params) == [type |-> type, params |-> params]

DialogCallSet ==
  { DialogCall("confirm", [PlainDialog EXCEPT !.title = "T", !.hint = "h"]),
    DialogCall("text", [PlainDialog EXCEPT !.multipleLines = TRUE,
                                           !.inputType = "numberPassword"]),
    DialogCall("text", [PlainDialog EXCEPT !.inputType = "password"]),
    DialogCall("date", [PlainDialog EXCEPT !.format = "yyyy"]),
    DialogCall("checkbox", [PlainDialog EXCEPT !.values = List(<<"a", "b">>)]),
    DialogCall("radio", [PlainDialog EXCEPT !.values = List(<<>>)]) }
  \cup { DialogCall("counter", [PlainDialog EXCEPT !.title = title,
                                  !.min = min, !.max = max, !.start = start]) :
           title \in {Undefined, "T"}, min \in {NoNumber, Number(0)},
           max \in {NoNumber, Number(9)}, start \in {NoNumber, Number(0)} }

MicRecordParamSet ==
  { [given |-> FALSE, filePath |-> Undefined, limitSeconds |-> NoNumber,
     encoder |-> Undefined],
    [given |-> TRUE, filePath |-> "/r", limitSeconds |-> Number(0),
     encoder |-> "aac"],
    [given |-> TRUE, filePath |-> Undefined, limitSeconds |-> Number(5),
     encoder |-> Undefined] }

MicRecordCallSet ==
  [action : {"info", "record", "quit"}, params : MicRecordParamSet]

\* the parameters the executor's behaviour is explored with: a call with a
\* payload and plain output, and a call with no payload and structured output
ExecutorShareParamSet ==
  { ShareParams(<<>>, Undefined, FALSE, Undefined, Undefined, "hi") }

ExecutorGetLocationParamSet ==
  { [given |-> FALSE, provider |-> Undefined, requestType |-> Undefined] }

\* chunks a process writes to its stdout, as bytes
StdoutChunks ==
  { <<"E", "R", "R", "O", "R", ":">>, <<" ">>,
    <<"[", "1", ",", " ", "2", "]">>, <<"hi", "lo", "hi">> }

\* chunks a process writes to its stderr, as bytes
StderrChunks == { <<"w">>, <<" ">> }

\* chunks written by a process whose handle the caller owns; the launcher
\* reads none of them
HandleStdoutChunks == { <<"1">>, <<"hi", "lo", "hi">> }
HandleStderrChunks == { <<"w">> }

\* chunks of a toast process: termux-toast prints nothing when it succeeds
ToastStdoutChunks == { <<" ">>, <<"1">> }
ToastStderrChunks == { <<"w">> }

\* chunks of a process that lists devices, one on a line
UsbStdoutChunks ==
  { <<"a", " ", "\n">>, <<" ", "\n", "b">>, <<"\n">>, <<"b">> }
UsbStderrChunks == { <<"w">> }

\* chunks of a process that a signal may end
SignalStdoutChunks ==
  { <<"E", "R", "R", "O", "R", ":">>, <<" ">>,
    <<"[", "1", ",", " ", "2", "]">> }
SignalStderrChunks == { <<"w">> }

\* what the close event of a started process carries
ExitCodes == { ExitCode(0), ExitCode(1), NullCode }

\* the close codes of a process that exited by itself
NumericExitCodes == { ExitCode(0), ExitCode(1) }

\* the errno a failed spawn reports (ENOENT), as the close event carries it
SpawnErrno == ExitCode(-2)
SpawnErrorMessage == "spawn ENOENT"

----------------------------------------------------------------------------
(* The state machine *)

RECURSIVE ChunksDelivered(_)
ChunksDelivered(ps) ==
  IF ps = <<>> THEN 0
  ELSE Len(Head(ps).outChunks) + Len(Head(ps).errChunks)
       + ChunksDelivered(Tail(ps))

Init ==
  /\ calls = <<>>
  /\ procs = <<>>

\* a call of a capability function, carried through to the point where it
\* returns a promise or a process handle, or throws
Call(fn, params, plan) ==
  /\ Len(calls) < MaxCalls
  /\ IF plan.how = "execute"
       THEN \E started \in BOOLEAN :
              /\ procs' = Append(procs,
                            ExecutedProcess(plan.commandParts, plan.inputText,
                                            plan.isJsonOutput, started,
                                            Len(calls) + 1))
              /\ calls' = Append(calls,
                            [fn |-> fn, params |-> params, how |-> "promise",
                             outcome |-> Pending, proc |-> Len(procs) + 1])
     ELSE IF plan.how = "stream"
       THEN \E started \in BOOLEAN :
              /\ procs' = Append(procs,
                            StreamedProcess(plan.commandParts, started,
                                            Len(calls) + 1))
              /\ calls' = Append(calls,
                            [fn |-> fn, params |-> params, how |-> "handle",
                             outcome |-> NoOutcome, proc |-> Len(procs) + 1])
       ELSE /\ procs' = procs
            /\ calls' = Append(calls,
                          [fn |-> fn, params |-> params,
                           how |-> IF plan.how = "throw" THEN "throw"
                                                         ELSE "promise",
                           outcome |-> ValidationError(plan.message),
                           proc |-> 0])

Share(params) == Call("share", params, share(params))

MediaPlayerControl(params) ==
  Call("mediaPlayerControl", params, mediaPlayerControl(params))

SetWallpaper(params) == Call("setWallpaper", params, setWallpaper(params))

GetLocation(params) == Call("getLocation", params, getLocation(params))

ShowToast(params) == Call("showToast", params, showToast(params))

StreamLocationUpdates(provider) ==
  Call("streamLocationUpdates", provider, streamLocationUpdates(provider))

StreamSensorData(params) ==
  Call("streamSensorData", params, streamSensorData(params))

SpeechToText == Call("speechToText", Undefined, speechToText)

ShowNotification(params) ==
  Call("showNotification", params, showNotification(params))

Vibrate(params) == Call("vibrate", params, vibrate(params))

ShowDialog(type, params) ==
  Call("showDialog", DialogCall(type, params), showDialog(type, params))

MicRecord(action, params) ==
  Call("micRecord", [action |-> action, params |-> params],
       micRecord(action, params))

ListUsbDevices == Call("listUsbDevices", Undefined, listUsbDevices)

\* a stdout listener that appends to one buffer shared by all calls
StdoutDataShared(i, chunk) ==
  /\ procs[i].started /\ ~procs[i].closed
  /\ ChunksDelivered(procs) < MaxChunks
  /\ procs' = [p \in DOMAIN procs |->
       [procs[p] EXCEPT
          !.outChunks = IF p = i THEN Append(@, chunk) ELSE @,
          !.stdoutData = @ \o toString(chunk)]]
  /\ UNCHANGED calls

\* process.stdout.on("data", ...)
StdoutData(i, chunk) ==
  /\ procs[i].started /\ ~procs[i].closed
  /\ ChunksDelivered(procs) < MaxChunks
  /\ procs' = [procs EXCEPT
       ![i].outChunks = Append(@, chunk),
       ![i].stdoutData = IF "stdout.data" \in procs[i].listeners
                           THEN @ \o toString(chunk) ELSE @]
  /\ UNCHANGED calls

\* a stderr listener that rejects as soon as stderr text arrives
StderrDataRejectsEarly(i, chunk) ==
  /\ procs[i].started /\ ~procs[i].closed
  /\ ChunksDelivered(procs) < MaxChunks
  /\ procs' = [procs EXCEPT
       ![i].errChunks = Append(@, chunk),
       ![i].stderrData = @ \o toString(chunk)]
  /\ calls' = [calls EXCEPT ![procs[i].call].outcome =
       Settle(@, CommandError(Trim(procs[i].stderrData \o toString(chunk)),
                              Trim(procs[i].stdoutData),
                              procs[i].commandParts))]

\* a stderr listener that appends to the stdout buffer
StderrDataIntoStdout(i, chunk) ==
  /\ procs[i].started /\ ~procs[i].closed
  /\ ChunksDelivered(procs) < MaxChunks
  /\ procs' = [procs EXCEPT
       ![i].errChunks = Append(@, chunk),
       ![i].stdoutData = @ \o toString(chunk)]
  /\ UNCHANGED calls

\* process.stderr.on("data", ...)
StderrData(i, chunk) ==
  /\ procs[i].started /\ ~procs[i].closed
  /\ ChunksDelivered(procs) < MaxChunks
  /\ procs' = [procs EXCEPT
       ![i].errChunks = Append(@, chunk),
       ![i].stderrData = IF "stderr.data" \in procs[i].listeners
                           THEN @ \o toString(chunk) ELSE @]
  /\ UNCHANGED calls

\* process.on("error", ...): the executable could not be started
OnError(i) ==
  /\ ~procs[i].started /\ ~procs[i].errorEmitted
  /\ procs' = [procs EXCEPT ![i].errorEmitted = TRUE]
  /\ calls' = IF "error" \in procs[i].listeners
                THEN [calls EXCEPT ![procs[i].call].outcome =
                        Settle(@, ErrorOutcome(procs[i].commandParts,
                                               SpawnErrorMessage))]
                ELSE calls

\* process.on("close", ...): after an exit, or after the error event of a
\* failed start
OnClose(i, code) ==
  /\ ~procs[i].closed
  /\ \/ procs[i].started /\ code \in ExitCodes
     \/ ~procs[i].started /\ procs[i].errorEmitted /\ code = SpawnErrno
  /\ procs' = [procs EXCEPT ![i].closed = TRUE, ![i].closeCode = code]
  /\ calls' = IF "close" \in procs[i].listeners
                THEN [calls EXCEPT ![procs[i].call].outcome =
                        Settle(@, CloseOutcome(procs[i].stdoutData,
                                               procs[i].stderrData, code,
                                               procs[i].isJsonOutput,
                                               procs[i].commandParts))]
                ELSE calls

Next ==
  \/ \E params \in ExecutorShareParamSet : Share(params)
  \/ \E params \in ExecutorGetLocationParamSet : GetLocation(params)
  \/ \E i \in DOMAIN procs : \E chunk \in StdoutChunks : StdoutData(i, chunk)
  \/ \E i \in DOMAIN procs : \E chunk \in StderrChunks : StderrData(i, chunk)
  \/ \E i \in DOMAIN procs : OnError(i)
  \/ \E i \in DOMAIN procs : \E code \in NumericExitCodes \cup {SpawnErrno} : OnClose(i, code)

\* the executor with its processes' events, under concurrent calls; every
\* process that starts exits by itself
Spec == Init /\ [][Next]_vars

NextStream ==
  \/ \E provider \in StreamLocationParamSet : StreamLocationUpdates(provider)
  \/ SpeechToText
  \/ \E i \in DOMAIN procs : \E chunk \in HandleStdoutChunks : StdoutData(i, chunk)
  \/ \E i \in DOMAIN procs : \E chunk \in HandleStderrChunks : StderrData(i, chunk)
  \/ \E i \in DOMAIN procs : OnError(i)
  \/ \E i \in DOMAIN procs : \E code \in ExitCodes \cup {SpawnErrno} : OnClose(i, code)

\* the streaming launcher with the events of the processes it hands out
SpecStream == Init /\ [][NextStream]_vars

NextToast ==
  \/ \E params \in ToastParamSet : ShowToast(params)
  \/ \E i \in DOMAIN procs : \E chunk \in ToastStdoutChunks : StdoutData(i, chunk)
  \/ \E i \in DOMAIN procs : \E chunk \in ToastStderrChunks : StderrData(i, chunk)
  \/ \E i \in DOMAIN procs : OnError(i)
  \/ \E i \in DOMAIN procs : \E code \in ExitCodes \cup {SpawnErrno} : OnClose(i, code)

\* showToast with the events of its processes
SpecToast == Init /\ [][NextToast]_vars

NextUsb ==
  \/ ListUsbDevices
  \/ \E i \in DOMAIN procs : \E chunk \in UsbStdoutChunks : StdoutData(i, chunk)
  \/ \E i \in DOMAIN procs : \E chunk \in UsbStderrChunks : StderrData(i, chunk)
  \/ \E i \in DOMAIN procs : OnError(i)
  \/ \E i \in DOMAIN procs : \E code \in ExitCodes \cup {SpawnErrno} : OnClose(i, code)

\* listUsbDevices with the events of its processes
SpecUsb == Init /\ [][NextUsb]_vars

NextSignal ==
  \/ \E params \in ExecutorShareParamSet : Share(params)
  \/ \E params \in ExecutorGetLocationParamSet : GetLocation(params)
  \/ \E i \in DOMAIN procs : \E chunk \in SignalStdoutChunks : StdoutData(i, chunk)
  \/ \E i \in DOMAIN procs : \E chunk \in SignalStderrChunks : StderrData(i, chunk)
  \/ \E i \in DOMAIN procs : OnError(i)
  \/ \E i \in DOMAIN procs : \E code \in ExitCodes \cup {SpawnErrno} : OnClose(i, code)

\* the executor with its processes' events; a process exits by itself or is
\* ended by a signal
SpecSignal == Init /\ [][NextSignal]_vars

NextFacade ==
  \/ \E params \in ShareParamSet : Share(params)
  \/ \E params \in MediaPlayerParamSet : MediaPlayerControl(params)
  \/ \E params \in WallpaperParamSet : SetWallpaper(params)
  \/ \E params \in GetLocationParamSet : GetLocation(params)
  \/ \E params \in ToastParamSet : ShowToast(params)
  \/ \E provider \in StreamLocationParamSet : StreamLocationUpdates(provider)
  \/ \E params \in StreamSensorsParamSet : StreamSensorData(params)
  \/ SpeechToText

\* the capability functions up to the point where they return, over the
\* full parameter sets
SpecFacade == Init /\ [][NextFacade]_vars

NextCommands ==
  \/ \E params \in NotificationParamSet : ShowNotification(params)
  \/ \E params \in VibrateParamSet : Vibrate(params)
  \/ \E call \in DialogCallSet : ShowDialog(call.type, call.params)
  \/ \E call \in MicRecordCallSet : MicRecord(call.action, call.params)

\* the capability functions that assemble a command from their parameters
\* and validate nothing, up to the point where they return
SpecCommands == Init /\ [][NextCommands]_vars

----------------------------------------------------------------------------
(* Properties *)

\* the outcome of the call that process p belongs to
OutcomeOf(p) == calls[procs[p].call].outcome

\* process p was started and its close event has been handled
Closed(p) == procs[p].started /\ procs[p].closed

\* the close event of p carried a numeric exit code other than zero
NonZeroCode(p) == ~procs[p].closeCode.isNull /\ procs[p].closeCode.n # 0

\* the close handler of p found the Non-Zero-Exit condition
NonZeroExitCondition(p) ==
  NotZero(procs[p].closeCode) /\ Trim(procs[p].stdoutData) = <<>>

\* C1: whenever a process closes with any stderr text accumulated, the call
\* is rejected with a Command-Error that embeds the (trimmed) stderr text,
\* the (trimmed) stdout text and the namespaced invocation, whatever the exit
\* code and whatever stdout holds.
C1_StderrIsCommandError ==
  \A p \in DOMAIN procs :
    Closed(p) /\ procs[p].stderrData # <<>> =>
      /\ OutcomeOf(p).kind = "CommandError"
      /\ OutcomeOf(p).stderr = Trim(procs[p].stderrData)
      /\ OutcomeOf(p).stdout = Trim(procs[p].stdoutData)
      /\ OutcomeOf(p).command
           = <<"termux-">> \o Join(procs[p].commandParts, " ")

\* exit code 0, well-formed JSON on stdout, structured output requested, and
\* stderr text: a Command-Error
C1_Witness ==
  \E p \in DOMAIN procs :
    /\ Closed(p) /\ procs[p].closeCode = ExitCode(0)
    /\ procs[p].isJsonOutput
    /\ procs[p].stdoutData = <<"[", "1", ",", " ", "2", "]">>
    /\ procs[p].stderrData = <<"w">>
    /\ OutcomeOf(p).kind = "CommandError"
    /\ OutcomeOf(p).stderr = <<"w">>
    /\ OutcomeOf(p).stdout = <<"[", "1", ",", " ", "2", "]">>

\* C2: a process that closes with no stderr text, a non-zero exit code and
\* stdout empty after trimming rejects the call with a Non-Zero-Exit that
\* carries that exit code and the invocation.
C2_NonZeroExit ==
  \A p \in DOMAIN procs :
    /\ Closed(p) /\ procs[p].stderrData = <<>>
    /\ NonZeroCode(p) /\ Trim(procs[p].stdoutData) = <<>>
    => /\ OutcomeOf(p).kind = "NonZeroExit"
       /\ OutcomeOf(p).code = procs[p].closeCode
       /\ OutcomeOf(p).command
            = <<"termux-">> \o Join(procs[p].commandParts, " ")

\* exit code 1 with whitespace-only stdout and no stderr carries code 1
C2_Witness ==
  \E p \in DOMAIN procs :
    /\ Closed(p) /\ procs[p].closeCode = ExitCode(1)
    /\ procs[p].stdoutData = <<" ">> /\ procs[p].stderrData = <<>>
    /\ OutcomeOf(p).kind = "NonZeroExit" /\ OutcomeOf(p).code.n = 1

\* C3: the exit code policy is asymmetric.  A non-zero exit code with no
\* stderr text and non-empty trimmed stdout that does not start with ERROR:
\* (and decodes, when structured output is requested) is a success; an exit
\* code of zero with stderr text is a failure.
C3_AsymmetricExitCode ==
  \A p \in DOMAIN procs :
    /\ ( /\ Closed(p) /\ NonZeroCode(p) /\ procs[p].stderrData = <<>>
         /\ Trim(procs[p].stdoutData) # <<>>
         /\ ~StartsWith(Trim(procs[p].stdoutData), ErrorPrefix)
         /\ procs[p].isJsonOutput => JSONparse(Trim(procs[p].stdoutData)).ok
         => OutcomeOf(p).kind = "success" )
    /\ ( /\ Closed(p) /\ procs[p].closeCode = ExitCode(0)
         /\ procs[p].stderrData # <<>>
         => OutcomeOf(p).kind = "CommandError" )

\* one call succeeded although its process exited with 1, another failed
\* although its process exited with 0
C3_Witness ==
  \E p, q \in DOMAIN procs :
    /\ Closed(p) /\ procs[p].closeCode = ExitCode(1)
    /\ procs[p].stderrData = <<>> /\ procs[p].stdoutData # <<>>
    /\ OutcomeOf(p).kind = "success"
    /\ Closed(q) /\ procs[q].closeCode = ExitCode(0)
    /\ procs[q].stderrData # <<>>
    /\ OutcomeOf(q).kind = "CommandError"

\* C4: with no stderr text and the Non-Zero-Exit condition not met, a
\* trimmed stdout that begins with ERROR: always rejects the call with an
\* Output-Error carrying exactly the trimmed text.
C4_SentinelOnTrimmedText ==
  \A p \in DOMAIN procs :
    /\ Closed(p) /\ procs[p].stderrData = <<>>
    /\ ~NonZeroExitCondition(p)
    /\ StartsWith(Trim(procs[p].stdoutData), ErrorPrefix)
    => /\ OutcomeOf(p).kind = "OutputError"
       /\ OutcomeOf(p).text = Trim(procs[p].stdoutData)

\* C5: a call with structured output requested that reaches the decode step
\* with non-empty trimmed stdout resolves to the decoded value of the trimmed
\* stdout when that is valid JSON, and is otherwise rejected with a
\* Decode-Error carrying the trimmed text and the decode failure; it is never
\* resolved with the raw text.
C5_DecodeStep ==
  \A p \in DOMAIN procs :
    /\ Closed(p) /\ procs[p].stderrData = <<>>
    /\ ~NonZeroExitCondition(p)
    /\ ~StartsWith(procs[p].stdoutData, ErrorPrefix)
    /\ procs[p].isJsonOutput /\ Trim(procs[p].stdoutData) # <<>>
    => LET text == Trim(procs[p].stdoutData)
           out == OutcomeOf(p)
       IN IF JSONparse(text).ok
            THEN /\ out.kind = "success" /\ out.isJson
                 /\ out.json = JSONparse(text).val
            ELSE /\ out.kind = "DecodeError"
                 /\ out.text = text
                 /\ out.detail = "SyntaxError"

\* stdout "[1, 2]" decoded to the array of 1 and 2 by one call, and stdout
\* that is no JSON rejected with a Decode-Error by another
C5_Witness ==
  \E p, q \in DOMAIN procs :
    /\ Closed(p) /\ procs[p].isJsonOutput
    /\ procs[p].stdoutData = <<"[", "1", ",", " ", "2", "]">>
    /\ OutcomeOf(p).kind = "success"
    /\ OutcomeOf(p).json = JsonArray(<<JsonNumber(1), JsonNumber(2)>>)
    /\ Closed(q) /\ procs[q].isJsonOutput
    /\ procs[q].stdoutData = <<EAcute, Replacement>>
    /\ OutcomeOf(q).kind = "DecodeError"
    /\ OutcomeOf(q).text = <<EAcute, Replacement>>

\* C6: a call that passes the three failure checks resolves to the trimmed
\* stdout text when structured output is not requested, and also when it is
\* requested but the trimmed stdout is empty: then nothing is decoded and
\* the value is the empty string.
C6_PlainTextSuccess ==
  \A p \in DOMAIN procs :
    /\ Closed(p) /\ procs[p].stderrData = <<>>
    /\ ~NonZeroExitCondition(p)
    /\ ~StartsWith(procs[p].stdoutData, ErrorPrefix)
    /\ ~procs[p].isJsonOutput \/ Trim(procs[p].stdoutData) = <<>>
    => /\ OutcomeOf(p).kind = "success"
       /\ ~OutcomeOf(p).isJson
       /\ OutcomeOf(p).text = Trim(procs[p].stdoutData)

\* structured output requested, exit code 0, whitespace-only stdout: success
\* with the empty string; and a plain call resolved with its trimmed text
C6_Witness ==
  \E p, q \in DOMAIN procs :
    /\ Closed(p) /\ procs[p].isJsonOutput
    /\ procs[p].closeCode = ExitCode(0) /\ procs[p].stdoutData = <<" ">>
    /\ OutcomeOf(p).kind = "success" /\ OutcomeOf(p).text = <<>>
    /\ Closed(q) /\ ~procs[q].isJsonOutput
    /\ procs[q].stdoutData = <<"[", "1", ",", " ", "2", "]">>
    /\ OutcomeOf(q).kind = "success"
    /\ OutcomeOf(q).text = <<"[", "1", ",", " ", "2", "]">>

\* C7: when the process cannot be started and its handle emits the error
\* event, the call is rejected with a Launch-Error that embeds the system
\* error's message and the namespaced invocation; the close event that
\* follows does not turn it into a Non-Zero-Exit or a success.
C7_LaunchError ==
  \A p \in DOMAIN procs :
    ~procs[p].started /\ procs[p].errorEmitted =>
      /\ OutcomeOf(p).kind = "LaunchError"
      /\ OutcomeOf(p).detail = SpawnErrorMessage
      /\ OutcomeOf(p).command
           = <<"termux-">> \o Join(procs[p].commandParts, " ")

\* a process that failed to start, after its error and close events
C7_Witness ==
  \E p \in DOMAIN procs :
    /\ ~procs[p].started /\ procs[p].errorEmitted /\ procs[p].closed
    /\ procs[p].closeCode = SpawnErrno
    /\ OutcomeOf(p).kind = "LaunchError"

\* C8: the executor ends the input channel of every process exactly once,
\* as the last thing it does on it: after one write of the whole payload
\* when a payload is supplied, and with nothing written when none is.
C8_StdinEndedOnce ==
  \A p \in DOMAIN procs :
    LET ops == procs[p].stdin
        text == procs[p].inputText
    IN /\ Cardinality({k \in DOMAIN ops : ops[k].op = "end"}) = 1
       /\ ops[Len(ops)].op = "end"
       /\ IF text # Undefined /\ text # ""
            THEN ops = <<[op |-> "write", data |-> text],
                         [op |-> "end", data |-> ""]>>
            ELSE \A k \in DOMAIN ops : ops[k].op # "write"

\* one process given the payload "hi" and one given none
C8_Witness ==
  \E p, q \in DOMAIN procs :
    /\ procs[p].inputText = "hi"
    /\ procs[p].stdin[1] = [op |-> "write", data |-> "hi"]
    /\ procs[q].inputText = Undefined
    /\ Len(procs[q].stdin) = 1

\* what the capability function of a recorded call does with its parameters
PlanOf(call) ==
  IF call.fn = "share" THEN share(call.params)
  ELSE IF call.fn = "mediaPlayerControl" THEN mediaPlayerControl(call.params)
  ELSE IF call.fn = "setWallpaper" THEN setWallpaper(call.params)
  ELSE IF call.fn = "showToast" THEN showToast(call.params)
  ELSE IF call.fn = "streamLocationUpdates"
    THEN streamLocationUpdates(call.params)
  ELSE IF call.fn = "streamSensorData" THEN streamSensorData(call.params)
  ELSE IF call.fn = "speechToText" THEN speechToText
  ELSE IF call.fn = "showNotification" THEN showNotification(call.params)
  ELSE IF call.fn = "vibrate" THEN vibrate(call.params)
  ELSE IF call.fn = "showDialog"
    THEN showDialog(call.params.type, call.params.params)
  ELSE IF call.fn = "micRecord"
    THEN micRecord(call.params.action, call.params.params)
  ELSE IF call.fn = "listUsbDevices" THEN listUsbDevices
  ELSE getLocation(call.params)

\* the processes started for call c
ProcessesOf(c) == {p \in DOMAIN procs : procs[p].call = c}

\* C9: every call that reaches the executor has exactly one process, named
\* termux-<first token> and given the remaining tokens in order, whatever
\* its outcome; no outcome adds a second process, and two calls never share
\* a process.
C9_OneProcessPerCall ==
  /\ \A c \in DOMAIN calls :
       PlanOf(calls[c]).how = "execute" =>
         LET tokens == PlanOf(calls[c]).commandParts IN
         /\ Cardinality(ProcessesOf(c)) = 1
         /\ ProcessesOf(c) = {calls[c].proc}
         /\ procs[calls[c].proc].file = <<"termux-", tokens[1]>>
         /\ procs[calls[c].proc].args = SubSeq(tokens, 2, Len(tokens))
  /\ \A p \in DOMAIN procs : procs[p].call \in DOMAIN calls

\* the same capability called twice with the same parameters: two processes,
\* both closed, one call resolved and the other rejected
C9_Witness ==
  \E c, d \in DOMAIN calls :
    /\ c # d /\ calls[c].fn = "share" /\ calls[d].fn = "share"
    /\ calls[c].params = calls[d].params
    /\ calls[c].proc # calls[d].proc
    /\ procs[calls[c].proc].closed /\ procs[calls[d].proc].closed
    /\ calls[c].outcome.kind = "success"
    /\ calls[d].outcome.kind \in {"LaunchError", "CommandError"}

\* the check of a capability function that its parameters do not pass
PreconditionFails(call) ==
  \/ /\ call.fn = "share"
     /\ call.params.text \in {Undefined, ""}
     /\ call.params.filePath \in {Undefined, ""}
  \/ /\ call.fn = "mediaPlayerControl"
     /\ call.params.action = "play"
     /\ call.params.filePath \in {Undefined, ""}
  \/ /\ call.fn = "setWallpaper"
     /\ call.params.filePath \in {Undefined, ""}
     /\ call.params.url \in {Undefined, ""}
  \/ /\ call.fn = "getLocation"
     /\ call.params.given
     /\ call.params.requestType = "updates"

\* C10: a call whose precondition fails ends in a Validation-Error and no
\* process is started for it.
C10_ValidationBeforeSpawn ==
  /\ \A c \in DOMAIN calls :
       PreconditionFails(calls[c]) =>
         /\ calls[c].outcome.kind = "ValidationError"
         /\ calls[c].proc = 0
         /\ ProcessesOf(c) = {}
  /\ Len(procs) = Cardinality({c \in DOMAIN calls : calls[c].proc # 0})

\* a share with neither text nor filePath and a getLocation with requestType
\* 'updates': two Validation-Errors and no process
C10_Witness ==
  \E c, d \in DOMAIN calls :
    /\ calls[c].fn = "share" /\ PreconditionFails(calls[c])
    /\ calls[d].fn = "getLocation" /\ PreconditionFails(calls[d])
    /\ calls[c].outcome.kind = "ValidationError"
    /\ calls[d].outcome.kind = "ValidationError"
    /\ procs = <<>>

\* C11: every validation failure of a capability function reaches the
\* caller as the rejection of the promise the function returns; getLocation
\* with requestType 'updates' is no exception.
C11_ValidationErrorsAreRejections ==
  \A c \in DOMAIN calls :
    calls[c].outcome.kind = "ValidationError" => calls[c].how = "promise"

\* C12: every exported function returns a promise, for every input.
C12_EveryCallReturnsAPromise ==
  \A c \in DOMAIN calls : calls[c].how = "promise"

\* C13: the streaming launcher starts exactly one process, named and
\* argumented as the executor would, and returns its handle; it registers no
\* listener, makes no call on stdin, buffers no output and settles nothing,
\* so chunks and a start failure are events of the handle alone.
C13_LauncherOnlySpawns ==
  \A c \in DOMAIN calls :
    PlanOf(calls[c]).how = "stream" =>
      LET tokens == PlanOf(calls[c]).commandParts
          p == calls[c].proc
      IN /\ calls[c].how = "handle"
         /\ ProcessesOf(c) = {p}
         /\ procs[p].file = <<"termux-", tokens[1]>>
         /\ procs[p].args = SubSeq(tokens, 2, Len(tokens))
         /\ procs[p].listeners = {}
         /\ procs[p].stdin = <<>>
         /\ procs[p].stdoutData = <<>> /\ procs[p].stderrData = <<>>
         /\ calls[c].outcome = NoOutcome

\* one streamed process that wrote to stdout and closed, and one that could
\* not be started and emitted its error event
C13_Witness ==
  \E p, q \in DOMAIN procs :
    /\ calls[procs[p].call].fn = "streamLocationUpdates"
    /\ procs[p].args = <<"-p", "gps", "-r", "updates">>
    /\ procs[p].outChunks # <<>> /\ procs[p].closed
    /\ procs[p].stdoutData = <<>>
    /\ ~procs[q].started /\ procs[q].errorEmitted
    /\ calls[procs[q].call].how = "handle"
    /\ calls[procs[q].call].outcome = NoOutcome

\* the text of a sequence of chunks: each chunk decoded, in arrival order
RECURSIVE ConcatDecoded(_)
ConcatDecoded(chunks) ==
  IF chunks = <<>> THEN <<>>
  ELSE toString(Head(chunks)) \o ConcatDecoded(Tail(chunks))

\* C14: with several calls in flight, under every interleaving of their
\* events, the buffers of a call hold the chunks of its own process and no
\* others, and its outcome is the close handler's result on its own
\* process's stdout chunks, stderr chunks and exit code, whatever has
\* happened to the other calls.
C14_CallsAreIsolated ==
  \A p \in DOMAIN procs :
    /\ procs[p].stdoutData = ConcatDecoded(procs[p].outChunks)
    /\ procs[p].stderrData = ConcatDecoded(procs[p].errChunks)
    /\ Closed(p) =>
         OutcomeOf(p) = CloseOutcome(ConcatDecoded(procs[p].outChunks),
                                     ConcatDecoded(procs[p].errChunks),
                                     procs[p].closeCode,
                                     procs[p].isJsonOutput,
                                     procs[p].commandParts)

\* two calls in flight, each process has written a chunk, and the later call
\* is settled while the earlier one is still pending
C14_Witness ==
  \E p, q \in DOMAIN procs :
    /\ p < q
    /\ procs[p].started /\ ~procs[p].closed
    /\ procs[p].outChunks = << <<"[", "1", ",", " ", "2", "]">> >>
    /\ OutcomeOf(p).kind = "pending"
    /\ Closed(q) /\ procs[q].errChunks = << <<"w">> >>
    /\ procs[q].stdoutData = <<>>
    /\ OutcomeOf(q).kind = "CommandError"

\* C15: a call whose process was started is pending for as long as the
\* process has not closed: no data on stdout or stderr settles it, and
\* without a close event it is never settled.
C15_PendingUntilClose ==
  \A p \in DOMAIN procs :
    procs[p].started /\ ~procs[p].closed => OutcomeOf(p).kind = "pending"

\* an open process that has written stderr text and an ERROR: prefix, its
\* call still pending
C15_Witness ==
  \E p \in DOMAIN procs :
    /\ procs[p].started /\ ~procs[p].closed
    /\ procs[p].stderrData = <<"w">>
    /\ procs[p].stdoutData = ErrorPrefix
    /\ OutcomeOf(p).kind = "pending"

\* the outcomes the executor's handlers produce
ExecutorOutcomeKinds ==
  {"success", "CommandError", "NonZeroExit", "OutputError", "DecodeError",
   "LaunchError"}

\* C16: once the process of a call has closed or has failed to start, the
\* call is settled, with one of success, Command-Error, Non-Zero-Exit,
\* Output-Error, Decode-Error and Launch-Error; no exit code, stdout, stderr
\* and structured flag leave it pending.
C16_ClosedIsSettled ==
  \A p \in DOMAIN procs :
    procs[p].closed \/ procs[p].errorEmitted =>
      OutcomeOf(p).kind \in ExecutorOutcomeKinds

\* a closed process whose stdout was no JSON and a process that failed to
\* start: both calls settled
C16_Witness ==
  \E p, q \in DOMAIN procs :
    /\ Closed(p) /\ procs[p].isJsonOutput
    /\ ~JSONparse(Trim(procs[p].stdoutData)).ok
    /\ OutcomeOf(p).kind = "DecodeError"
    /\ ~procs[q].started /\ procs[q].errorEmitted /\ ~procs[q].closed
    /\ OutcomeOf(q).kind = "LaunchError"

\* the parameters of a toast with no flag
PlainToast(params) ==
  /\ ~params.shortDuration
  /\ params.backgroundColor = Undefined
  /\ params.textColor = Undefined
  /\ params.gravity = Undefined

\* C17: showToast sends the message on stdin only, never as an argument
\* token, and asks for plain output; with the message "hi" and no flag the
\* token list is ["toast"], and when the process exits with 0 having written
\* nothing the call resolves to the empty string.
C17_ToastMessageOnStdin ==
  \A c \in DOMAIN calls :
    calls[c].fn = "showToast" =>
      LET p == calls[c].proc
          message == calls[c].params.message
      IN /\ p \in DOMAIN procs
         /\ procs[p].commandParts[1] = "toast"
         /\ \A k \in DOMAIN procs[p].args : procs[p].args[k] # message
         /\ ~procs[p].isJsonOutput
         /\ procs[p].stdin =
              IF message = "" THEN <<[op |-> "end", data |-> ""]>>
              ELSE <<[op |-> "write", data |-> message],
                     [op |-> "end", data |-> ""]>>
         /\ PlainToast(calls[c].params) => procs[p].commandParts = <<"toast">>
         /\ ( /\ Closed(p) /\ procs[p].closeCode = ExitCode(0)
              /\ procs[p].outChunks = <<>> /\ procs[p].errChunks = <<>>
              => calls[c].outcome = ResolveText(<<>>) )

\* showToast({message: "hi"}): tokens ["toast"], "hi" written to stdin, the
\* process exited with 0 and wrote nothing, the call resolved to ""
C17_Witness ==
  \E c \in DOMAIN calls :
    /\ calls[c].fn = "showToast" /\ calls[c].params.message = "hi"
    /\ PlainToast(calls[c].params)
    /\ procs[calls[c].proc].file = <<"termux-", "toast">>
    /\ procs[calls[c].proc].args = <<>>
    /\ procs[calls[c].proc].stdin[1] = [op |-> "write", data |-> "hi"]
    /\ Closed(calls[c].proc)
    /\ procs[calls[c].proc].closeCode = ExitCode(0)
    /\ procs[calls[c].proc].outChunks = <<>>
    /\ procs[calls[c].proc].errChunks = <<>>
    /\ calls[c].outcome.kind = "success" /\ calls[c].outcome.text = <<>>

\* C18 as claimed: an Output-Error occurs only for a process that exited
\* with code zero and whose output begins with ERROR:.
C18_OutputErrorOnlyAfterExitZero ==
  \A p \in DOMAIN procs :
    OutcomeOf(p).kind = "OutputError" =>
      /\ procs[p].closeCode = ExitCode(0)
      /\ StartsWith(procs[p].stdoutData, ErrorPrefix)

\* C18 as amended: an Output-Error occurs only for a closed process whose
\* output begins with ERROR:, and carries the trimmed output; the exit code
\* may be zero or not.
C18_OutputErrorOnlyOnSentinel ==
  \A p \in DOMAIN procs :
    OutcomeOf(p).kind = "OutputError" =>
      /\ Closed(p)
      /\ StartsWith(procs[p].stdoutData, ErrorPrefix)
      /\ OutcomeOf(p).text = Trim(procs[p].stdoutData)

\* exit code 1, stdout "ERROR:", no stderr: an Output-Error
C18_Witness ==
  \E p \in DOMAIN procs :
    /\ Closed(p) /\ procs[p].closeCode = ExitCode(1)
    /\ procs[p].stdoutData = ErrorPrefix /\ procs[p].stderrData = <<>>
    /\ OutcomeOf(p).kind = "OutputError"

\* C19: when a process closes, the output buffer is the text of its stdout
\* chunks in arrival order and the error buffer the text of its stderr
\* chunks in arrival order: no chunk is dropped, repeated, reordered or put
\* in the other buffer.
C19_BuffersAtClose ==
  \A p \in DOMAIN procs :
    Closed(p) =>
      /\ procs[p].stdoutData = ConcatDecoded(procs[p].outChunks)
      /\ procs[p].stderrData = ConcatDecoded(procs[p].errChunks)

\* a closed process that wrote the chunks "[1, 2]" and " " to stdout, in
\* that order
C19_Witness ==
  \E p \in DOMAIN procs :
    /\ Closed(p)
    /\ procs[p].outChunks = << <<"[", "1", ",", " ", "2", "]">>, <<" ">> >>
    /\ procs[p].stdoutData = <<"[", "1", ",", " ", "2", "]", " ">>
    /\ procs[p].stderrData = <<>>

\* a call that has been resolved or rejected
Settled(c) == calls[c].outcome.kind \in ExecutorOutcomeKinds

\* C20: a call is settled at most once: no later event changes the outcome
\* of a settled call.  After a failed start the error handler settles it, and
\* the close handler that runs next leaves the Launch-Error in place.
C20_SettledOnce ==
  [][\A c \in DOMAIN calls :
       Settled(c) => calls'[c].outcome = calls[c].outcome]_vars

\* error then close of a process that failed to start: the close handler
\* found the Non-Zero-Exit condition and the outcome is still the
\* Launch-Error
C20_Witness ==
  \E p \in DOMAIN procs :
    /\ ~procs[p].started /\ procs[p].errorEmitted /\ procs[p].closed
    /\ NonZeroExitCondition(p)
    /\ CloseOutcome(procs[p].stdoutData, procs[p].stderrData,
                    procs[p].closeCode, procs[p].isJsonOutput,
                    procs[p].commandParts).kind = "NonZeroExit"
    /\ OutcomeOf(p).kind = "LaunchError"

\* the tokens the documentation of showNotification gives to one button
ButtonBlock(n, btn) ==
  CASE n = 1 -> <<"--button1-text", btn.text, "--button1-action", btn.action>>
    [] n = 2 -> <<"--button2-text", btn.text, "--button2-action", btn.action>>
    [] n = 3 -> <<"--button3-text", btn.text, "--button3-action", btn.action>>

\* the tokens of the first three buttons, in list order
FirstThreeButtons(buttons) ==
  (IF Len(buttons) >= 1 THEN ButtonBlock(1, buttons[1]) ELSE <<>>)
  \o (IF Len(buttons) >= 2 THEN ButtonBlock(2, buttons[2]) ELSE <<>>)
  \o (IF Len(buttons) >= 3 THEN ButtonBlock(3, buttons[3]) ELSE <<>>)

\* the positions of the argument list that hold a button flag
ButtonFlagPositions(args) ==
  {j \in DOMAIN args :
     \E n \in 1..4 : args[j] \in {ButtonTextFlag(n), ButtonActionFlag(n)}}

\* C21: the argument list of showNotification holds the text and action
\* token pairs of the first three buttons, in list order and contiguous, and
\* no other button flag: a fourth button leaves no token.  The content is the
\* stdin payload, and a content that is not empty is no argument token.
C21_NotificationButtons ==
  \A c \in DOMAIN calls :
    calls[c].fn = "showNotification" =>
      LET p == calls[c].proc
          args == procs[p].args
          buttons == calls[c].params.buttons.items
          expected == FirstThreeButtons(buttons)
          at == ButtonFlagPositions(args)
          content == calls[c].params.content
      IN /\ p \in DOMAIN procs
         /\ 2 * Cardinality(at) = Len(expected)
         /\ at # {} =>
              LET first == CHOOSE j \in at : \A k \in at : j <= k
              IN SubSeq(args, first, first + Len(expected) - 1) = expected
         /\ content # "" => \A j \in DOMAIN args : args[j] # content
         /\ procs[p].inputText = content
         /\ procs[p].stdin =
              IF content = "" THEN <<[op |-> "end", data |-> ""]>>
              ELSE <<[op |-> "write", data |-> content],
                     [op |-> "end", data |-> ""]>>

\* a notification with four buttons and a title: the tokens of buttons 1 to
\* 3 follow the title, nothing of the fourth button is passed, and "hi" is
\* written to stdin
C21_Witness ==
  \E c \in DOMAIN calls :
    /\ calls[c].fn = "showNotification"
    /\ calls[c].params.buttons.items = NotificationButtons
    /\ procs[calls[c].proc].args =
         <<"--title", "T",
           "--button1-text", "t1", "--button1-action", "a1",
           "--button2-text", "t2", "--button2-action", "a2",
           "--button3-text", "t3", "--button3-action", "a3">>
    /\ procs[calls[c].proc].stdin[1] = [op |-> "write", data |-> "hi"]

\* C22: vibrate called with a duration d issues the tokens "vibrate", "-d",
\* d, followed by "-f" when force is set: each supplied parameter contributes
\* its flag once.
C22_VibrateFlagsOnce ==
  \A c \in DOMAIN calls :
    calls[c].fn = "vibrate" /\ calls[c].params.given
    /\ calls[c].params.durationMs.defined
    => procs[calls[c].proc].commandParts =
         <<"vibrate", "-d", NumberToString(calls[c].params.durationMs.n)>>
         \o (IF calls[c].params.force THEN <<"-f">> ELSE <<>>)

\* the tokens "-r" of a token list
RequestTypeFlags(tokens) == {j \in DOMAIN tokens : tokens[j] = "-r"}

\* C23: a getLocation that spawns issues exactly one "-r" pair, after the
\* "-p" pair if a provider is given: "-r" with the request type when that is
\* 'last' or 'once', and "-r once" when it is absent or params is omitted.
\* With the request type 'updates' nothing is spawned and the call fails
\* with the error that names streamLocationUpdates, which issues "location",
\* "-p", provider, "-r", "updates", the provider defaulting to "gps".
C23_LocationRequestType ==
  \A c \in DOMAIN calls :
    /\ calls[c].fn = "getLocation" =>
         LET params == calls[c].params
             requestType == IF params.given THEN params.requestType
                                            ELSE Undefined
             provider == IF params.given THEN params.provider ELSE Undefined
         IN IF requestType = "updates"
              THEN /\ calls[c].proc = 0 /\ ProcessesOf(c) = {}
                   /\ calls[c].outcome = ValidationError("For location updates, please use the streamLocationUpdates() function.")
              ELSE LET tokens == procs[calls[c].proc].commandParts IN
                   /\ Cardinality(RequestTypeFlags(tokens)) = 1
                   /\ tokens =
                        <<"location">>
                        \o (IF provider = Undefined THEN <<>>
                                                    ELSE <<"-p", provider>>)
                        \o <<"-r", IF requestType \in {"last", "once"}
                                     THEN requestType ELSE "once">>
    /\ calls[c].fn = "streamLocationUpdates" =>
         procs[calls[c].proc].commandParts =
           <<"location", "-p",
             IF calls[c].params = Undefined THEN "gps" ELSE calls[c].params,
             "-r", "updates">>

\* getLocation() spawned with "-r once", and getLocation with the request
\* type 'updates' failed without a process
C23_Witness ==
  \E c, d \in DOMAIN calls :
    /\ calls[c].fn = "getLocation" /\ ~calls[c].params.given
    /\ procs[calls[c].proc].commandParts = <<"location", "-r", "once">>
    /\ calls[d].fn = "getLocation" /\ calls[d].params.given
    /\ calls[d].params.requestType = "updates"
    /\ calls[d].proc = 0 /\ calls[d].outcome.kind = "ValidationError"
    /\ Len(procs) = 1

\* position i of a title holds whitespace
IsWhiteSpaceAt(title, i) == title[i] \in WhiteSpace

\* the positions of a title that survive the replacement: every character
\* that is no whitespace, and the first character of every whitespace run
KeptPositions(title) ==
  {i \in DOMAIN title :
     ~IsWhiteSpaceAt(title, i) \/ i = 1 \/ ~IsWhiteSpaceAt(title, i - 1)}

\* the title with every run of whitespace replaced by one "-"
RunsReplaced(title) ==
  LET kept == KeptPositions(title)
      nth(k) == CHOOSE i \in kept : Cardinality({j \in kept : j < i}) = k - 1
  IN [k \in 1..Cardinality(kept) |->
        IF IsWhiteSpaceAt(title, nth(k)) THEN "-" ELSE title[nth(k)]]

\* the number of tokens share issues for its flags
ShareFlagTokens(params) ==
  (IF params.title # <<>> THEN 2 ELSE 0)
  + (IF Truthy(params.contentType) THEN 2 ELSE 0)
  + (IF params.useDefaultReceiver THEN 1 ELSE 0)
  + (IF Truthy(params.action) THEN 2 ELSE 0)

\* C24: share gives filePath precedence over text.  With a filePath the path
\* is the last token and nothing is written to stdin, even when text is
\* supplied too; with text only, the text is the stdin payload and the tokens
\* are the command and its flags, with no positional token.  The "-t" token
\* is the title with every run of whitespace replaced by one "-".
C24_ShareFilePathFirst ==
  \A c \in DOMAIN calls :
    calls[c].fn = "share" /\ ~PreconditionFails(calls[c]) =>
      LET params == calls[c].params
          p == procs[calls[c].proc]
          tokens == p.commandParts
      IN /\ IF Truthy(params.filePath)
              THEN /\ tokens[Len(tokens)] = params.filePath
                   /\ Len(tokens) = 1 + ShareFlagTokens(params) + 1
                   /\ p.inputText = Undefined
                   /\ p.stdin = <<[op |-> "end", data |-> ""]>>
              ELSE /\ Len(tokens) = 1 + ShareFlagTokens(params)
                   /\ p.inputText = params.text
                   /\ p.stdin = <<[op |-> "write", data |-> params.text],
                                  [op |-> "end", data |-> ""]>>
         /\ params.title # <<>> =>
              /\ tokens[2] = "-t"
              /\ tokens[3] = RunsReplaced(params.title)
              /\ \A i \in DOMAIN tokens[3] : tokens[3][i] \notin WhiteSpace

\* share with a filePath, a text and a title in which a space is followed by
\* a newline: the path is the last token, the title token is "a-b" and stdin
\* is closed without a write
C24_Witness ==
  \E c \in DOMAIN calls :
    /\ calls[c].fn = "share"
    /\ calls[c].params.filePath = "/f" /\ calls[c].params.text = "hi"
    /\ calls[c].params.title = <<"a", " ", "\n", "b">>
    /\ procs[calls[c].proc].commandParts =
         <<"share", "-t", <<"a", "-", "b">>, "-c", "text/plain", "-d",
           "-a", "send", "/f">>
    /\ procs[calls[c].proc].stdin = <<[op |-> "end", data |-> ""]>>

\* C25: mediaPlayerControl issues "media-player" and the action for every
\* action other than 'play', whether or not a filePath is given; it issues
\* "media-player", "play" and the filePath for 'play' with a filePath that is
\* not empty; and it rejects without a process for 'play' with the filePath
\* missing or empty.
C25_MediaPlayerTokens ==
  \A c \in DOMAIN calls :
    calls[c].fn = "mediaPlayerControl" =>
      LET action == calls[c].params.action
          filePath == calls[c].params.filePath
      IN IF action # "play"
           THEN procs[calls[c].proc].commandParts = <<"media-player", action>>
         ELSE IF filePath \notin {Undefined, ""}
           THEN procs[calls[c].proc].commandParts
                  = <<"media-player", "play", filePath>>
         ELSE /\ calls[c].proc = 0 /\ ProcessesOf(c) = {}
              /\ calls[c].how = "promise"
              /\ calls[c].outcome
                   = ValidationError("filePath is required for 'play' action.")

\* 'pause' with a filePath spawned without it, and 'play' with the empty
\* filePath rejected without a process
C25_Witness ==
  \E c, d \in DOMAIN calls :
    /\ calls[c].fn = "mediaPlayerControl"
    /\ calls[c].params = [action |-> "pause", filePath |-> "/m"]
    /\ procs[calls[c].proc].args = <<"pause">>
    /\ calls[d].fn = "mediaPlayerControl"
    /\ calls[d].params = [action |-> "play", filePath |-> ""]
    /\ calls[d].outcome.kind = "ValidationError"
    /\ Len(procs) = 1

\* C26: showDialog always asks for structured output and never sends a
\* payload.  A counter dialog has the range pair "-r", "<min>,<max>,<start>"
\* after its title and hint exactly when min, max and start are all defined,
\* 0 included, and no range token when one of them is missing.
C26_DialogCounterRange ==
  \A c \in DOMAIN calls :
    calls[c].fn = "showDialog" =>
      LET type == calls[c].params.type
          params == calls[c].params.params
          p == procs[calls[c].proc]
          tokens == p.commandParts
          base == 2 + (IF params.title \in {Undefined, ""} THEN 0 ELSE 2)
                    + (IF params.hint \in {Undefined, ""} THEN 0 ELSE 2)
      IN /\ p.isJsonOutput
         /\ p.inputText = Undefined
         /\ p.stdin = <<[op |-> "end", data |-> ""]>>
         /\ tokens[1] = "dialog" /\ tokens[2] = type
         /\ type = "counter" =>
              IF params.min.defined /\ params.max.defined
                 /\ params.start.defined
                THEN /\ Len(tokens) = base + 2
                     /\ tokens[base + 1] = "-r"
                     /\ tokens[base + 2]
                          = <<NumberToString(params.min.n), ",",
                              NumberToString(params.max.n), ",",
                              NumberToString(params.start.n)>>
                ELSE Len(tokens) = base

\* a counter dialog with min 0, max 9 and start 0 and the range "0,9,0", and
\* one with max missing and no range token
C26_Witness ==
  \E c, d \in DOMAIN calls :
    /\ calls[c].fn = "showDialog" /\ calls[c].params.type = "counter"
    /\ calls[c].params.params.min = Number(0)
    /\ procs[calls[c].proc].commandParts =
         <<"dialog", "counter", "-r", <<"0", ",", "9", ",", "0">> >>
    /\ procs[calls[c].proc].isJsonOutput
    /\ calls[d].fn = "showDialog" /\ calls[d].params.type = "counter"
    /\ calls[d].params.params.min = Number(0)
    /\ calls[d].params.params.start = Number(0)
    /\ ~calls[d].params.params.max.defined
    /\ procs[calls[d].proc].commandParts = <<"dialog", "counter">>

\* C27: micRecord issues "-i" for info, "-r" for record and "-q" for quit;
\* the tokens "-f", "-l" and "-e" with their values follow only when the
\* action is 'record'; and structured output is requested exactly when the
\* action is 'info'.
C27_MicRecordTokens ==
  \A c \in DOMAIN calls :
    calls[c].fn = "micRecord" =>
      LET action == calls[c].params.action
          params == calls[c].params.params
          p == procs[calls[c].proc]
          tokens == p.commandParts
      IN /\ tokens[1] = "microphone-record"
         /\ action = "info" => tokens[2] = "-i"
         /\ action = "record" => tokens[2] = "-r"
         /\ action = "quit" => tokens[2] = "-q"
         /\ action # "record" \/ ~params.given => Len(tokens) = 2
         /\ action = "record" /\ params.given =>
              SubSeq(tokens, 3, Len(tokens)) =
                (IF params.filePath = Undefined THEN <<>>
                   ELSE <<"-f", params.filePath>>)
                \o (IF params.limitSeconds.defined
                      THEN <<"-l", NumberToString(params.limitSeconds.n)>>
                      ELSE <<>>)
                \o (IF params.encoder = Undefined THEN <<>>
                      ELSE <<"-e", params.encoder>>)
         /\ p.isJsonOutput <=> action = "info"

\* 'record' with a file, the limit 0 and an encoder, and 'info' called with
\* the same parameters: the first has all three pairs and plain output, the
\* second the flag "-i" alone and structured output
C27_Witness ==
  \E c, d \in DOMAIN calls :
    /\ calls[c].fn = "micRecord" /\ calls[c].params.action = "record"
    /\ procs[calls[c].proc].commandParts =
         <<"microphone-record", "-r", "-f", "/r", "-l", "0", "-e", "aac">>
    /\ ~procs[calls[c].proc].isJsonOutput
    /\ calls[d].fn = "micRecord" /\ calls[d].params.action = "info"
    /\ calls[d].params.params = calls[c].params.params
    /\ procs[calls[d].proc].commandParts = <<"microphone-record", "-i">>
    /\ procs[calls[d].proc].isJsonOutput

\* the positions around the lines of a text: before its first character,
\* its newlines, and after its last character
LineBreaks(t) == {0, Len(t) + 1} \cup {i \in DOMAIN t : t[i] = "\n"}

\* the positions of the line that starts after the break a which hold a
\* character that is no whitespace
InkOfLine(t, a) ==
  {i \in DOMAIN t :
     /\ a < i /\ t[i] \notin WhiteSpace
     /\ \A b \in LineBreaks(t) : ~(a < b /\ b < i)}

\* the breaks after which a line with such a character starts
InkedLines(t) == {a \in LineBreaks(t) : InkOfLine(t, a) # {}}

\* the lines of a text that are not blank, in order, each without the
\* whitespace around it
TrimmedLines(t) ==
  LET starts == InkedLines(t)
      nth(k) == CHOOSE a \in starts : Cardinality({x \in starts : x < a}) = k - 1
      lo(a) == CHOOSE i \in InkOfLine(t, a) : \A j \in InkOfLine(t, a) : i <= j
      hi(a) == CHOOSE i \in InkOfLine(t, a) : \A j \in InkOfLine(t, a) : j <= i
  IN [k \in 1..Cardinality(starts) |-> SubSeq(t, lo(nth(k)), hi(nth(k)))]

\* C28: the promise of listUsbDevices is pending while the executor's is;
\* when the executor resolves, it is resolved with the lines of the process's
\* stdout that are not blank, trimmed and in their order, so no item is empty
\* or whitespace only and an empty stdout gives the empty list; when the
\* executor rejects, it is rejected with the executor's error unchanged.
C28_UsbDeviceLines ==
  \A c \in DOMAIN calls :
    calls[c].fn = "listUsbDevices" =>
      LET awaited == calls[c].outcome
          promise == listUsbDevicesAwaited(awaited)
          stdout == procs[calls[c].proc].stdoutData
      IN IF awaited.kind = "success"
           THEN /\ promise.kind = "success"
                /\ promise.items = TrimmedLines(stdout)
                /\ \A k \in DOMAIN promise.items :
                     /\ promise.items[k] # <<>>
                     /\ \E i \in DOMAIN promise.items[k] :
                          promise.items[k][i] \notin WhiteSpace
                     /\ Trim(promise.items[k]) = promise.items[k]
                /\ stdout = <<>> => promise.items = <<>>
           ELSE promise = awaited

\* stdout "a \n" then " \nb" and exit code 0: the list of "a" and "b"; and a
\* call whose process wrote nothing and exited with 0: the empty list
C28_Witness ==
  \E c, d \in DOMAIN calls :
    /\ calls[c].fn = "listUsbDevices" /\ Closed(calls[c].proc)
    /\ procs[calls[c].proc].stdoutData = <<"a", " ", "\n", " ", "\n", "b">>
    /\ calls[c].outcome.kind = "success"
    /\ listUsbDevicesAwaited(calls[c].outcome).items = << <<"a">>, <<"b">> >>
    /\ calls[d].fn = "listUsbDevices" /\ Closed(calls[d].proc)
    /\ procs[calls[d].proc].stdoutData = <<>>
    /\ calls[d].outcome.kind = "success"
    /\ listUsbDevicesAwaited(calls[d].outcome).items = <<>>

\* C29: a Decode-Error, a Non-Zero-Exit and an Output-Error occur only for a
\* process whose stderr buffer is empty, not even holding whitespace; the
\* stderr text a Decode-Error embeds is therefore always empty.
C29_NoStderrBeyondCommandError ==
  \A p \in DOMAIN procs :
    Closed(p) =>
      /\ OutcomeOf(p).kind \in {"DecodeError", "NonZeroExit", "OutputError"}
           => procs[p].stderrData = <<>> /\ procs[p].errChunks = <<>>
      /\ OutcomeOf(p).kind = "DecodeError" => OutcomeOf(p).stderr = <<>>

\* a Decode-Error and a Non-Zero-Exit, both of processes that wrote nothing
\* to stderr
C29_Witness ==
  \E p, q \in DOMAIN procs :
    /\ Closed(p) /\ OutcomeOf(p).kind = "DecodeError"
    /\ procs[p].outChunks = << <<"hi", "lo", "hi">> >>
    /\ procs[p].errChunks = <<>> /\ OutcomeOf(p).stderr = <<>>
    /\ Closed(q) /\ OutcomeOf(q).kind = "NonZeroExit"
    /\ procs[q].outChunks = << <<" ">> >>
    /\ procs[q].errChunks = <<>>

\* C30: a process ended by a signal closes with no exit code, and the close
\* handler treats that as a non-zero exit.  With no stderr text and stdout
\* empty after trimming the call is rejected with a Non-Zero-Exit that
\* carries the null code, and is never resolved with the empty string; with
\* no stderr text and other stdout the outcome is the one exit code 1 gives.
C30_SignalIsNonZeroExit ==
  \A p \in DOMAIN procs :
    Closed(p) /\ procs[p].closeCode = NullCode /\ procs[p].stderrData = <<>>
    => IF Trim(procs[p].stdoutData) = <<>>
         THEN /\ OutcomeOf(p).kind = "NonZeroExit"
              /\ OutcomeOf(p).code = NullCode
              /\ OutcomeOf(p).command = Invocation(procs[p].commandParts)
         ELSE OutcomeOf(p) =
                CloseOutcome(procs[p].stdoutData, <<>>, ExitCode(1),
                             procs[p].isJsonOutput, procs[p].commandParts)

\* two processes ended by a signal: one wrote only whitespace and its call
\* is rejected with a Non-Zero-Exit, the other wrote "[1, 2]" and its call is
\* resolved with the decoded array
C30_Witness ==
  \E p, q \in DOMAIN procs :
    /\ Closed(p) /\ procs[p].closeCode = NullCode
    /\ procs[p].outChunks = << <<" ">> >> /\ procs[p].errChunks = <<>>
    /\ OutcomeOf(p).kind = "NonZeroExit" /\ OutcomeOf(p).code.isNull
    /\ Closed(q) /\ procs[q].closeCode = NullCode
    /\ procs[q].isJsonOutput
    /\ procs[q].outChunks = << <<"[", "1", ",", " ", "2", "]">> >>
    /\ procs[q].errChunks = <<>>
    /\ OutcomeOf(q).kind = "success"
    /\ OutcomeOf(q).json = JsonArray(<<JsonNumber(1), JsonNumber(2)>>)

====
